---------------------------- MODULE Spec2Model ----------------------------
(***************************************************************************)
(* A model of the URL monitoring library:                                  *)
(*   - URLMonitor (src/monitor.py): the shared semaphore, the history      *)
(*     mapping, add_urls, _fetch_and_analyze, the monitor loop and         *)
(*     get_changes;                                                        *)
(*   - URLAnalytics (src/analytics.py, src/url-monitor-analytics.py):      *)
(*     analyze_url, the metrics cache and get_url_metrics, and             *)
(*     get_comparative_analysis;                                           *)
(*   - main (src/url-monitor-example.py): add_urls, then the monitor task, *)
(*     then its cancellation.                                              *)
(* asyncio is cooperative: code between two awaits is one atomic step.     *)
(***************************************************************************)
EXTENDS Integers, Sequences, FiniteSets, TLC

\* ------------------------------------------------------------- bounds
NumUrls == 2
NumHashes == 2
MaxTime == 1
MaxRounds == 2
MaxSnaps == 1
MaxTextLen == 1
MaxWall == 3
MaxLen == 2
MaxDays == 2
MaxChars == 2
MaxHist == 3
\* URLMonitor(concurrency_limit): the number of permits of the semaphore
ConcurrencyLimit == 2
\* a concurrency_limit below the number of URLs of one add_urls call
SmallLimit == 1

URLs == 1..NumUrls
Hashes == 1..NumHashes

VARIABLES
    history,    \* URLMonitor.history: tracked URL -> sequence of snapshots
    permits,    \* URLMonitor.semaphore: the permits still available
    clock,      \* the last instant datetime.now() returned
    addPc,      \* add_urls: "idle" (no call running), "gather", "close"
    addTask,    \* add_urls: URL of the call -> its fetch task
    mainPc,     \* main of the example: "init", "added", "monitoring"
    monPc,      \* monitor: "idle", "start", "gather", "close", "sleep", "cancelled"
    monTask,    \* monitor: URL of the round -> its fetch task
    rounds,     \* number of rounds begun
    ready,      \* the callers whose gather is complete, in the order they resume
    roundStart, \* history as the running round read it (line 116)
    failedUrls, \* the URLs whose latest fetch failed
    impl,       \* which URLAnalytics: "analytics" or "url_monitor_analytics"
    metrics_cache,  \* URLAnalytics.metrics_cache: URL -> (computed-at, metrics)
    wall,       \* the instant datetime.now() returns to URLAnalytics
    call,       \* the get_url_metrics call a caller made last, and what it did
    cmp,        \* the get_comparative_analysis call a caller made last, and what it did
    analyzeArg, \* analyze_url: the snapshot sequence it is called with
    analyzeRet, \* analyze_url: what the call returned or raised, "pending" before
    changesArg, \* get_changes: the url and the threshold it is called with
    changesRet  \* get_changes: the events it returned, "pending" before

changesVars == <<changesArg, changesRet>>

monitorVars == <<history, permits, clock, addPc, addTask, mainPc, monPc, monTask,
                 rounds, ready, roundStart, failedUrls, changesVars>>

analyzeVars == <<analyzeArg, analyzeRet>>

analyticsVars == <<impl, metrics_cache, wall, call, cmp, analyzeVars>>

vars == <<monitorVars, analyticsVars>>

\* ------------------------------------------------------------- data
NoSnap == [hash |-> 0, timestamp |-> 0 - 1]

PageSnapshot(h, t) == [hash |-> h, timestamp |-> t]

Snapshots == [hash : Hashes, timestamp : 0..MaxTime]

\* a fetch task of one gather: waiting for a permit, holding one, or done
Waiting == [st |-> "waiting", snap |-> NoSnap]
Fetching == [st |-> "fetching", snap |-> NoSnap]
FailedRetried == [st |-> "waiting", snap |-> NoSnap]

Failed == [st |-> "fail", snap |-> NoSnap]
Fetched(s) == [st |-> "ok", snap |-> s]

NoTasks == << >>

\* no get_changes call yet
NoQuery == [url |-> 0, threshold |-> <<0, 1>>]

NoEvents == [pending |-> TRUE, events |-> << >>]

Last(s) == s[Len(s)]

IsPrefix(s, t) == Len(s) <= Len(t) /\ SubSeq(t, 1, Len(s)) = s

AllDone(tasks) == \A u \in DOMAIN tasks : tasks[u].st \in {"ok", "fail"}

\* asyncio runs callbacks in the order they were scheduled: the caller of the
\* gather whose last fetch ended first resumes first
Resume(owner, tasks) == IF AllDone(tasks) THEN Append(ready, owner) ELSE ready

Holding(tasks) == {u \in DOMAIN tasks : tasks[u].st = "fetching"}

\* the fetches inside the semaphore-guarded section
InFlight == Cardinality(Holding(addTask)) + Cardinality(Holding(monTask))

\* ------------------------------------------------------------- semaphore
CanAcquireOffByOne(p) == p >= 0

CanAcquireSpare(p) == p > 1

\* asyncio.Semaphore.acquire proceeds only while a permit is left
CanAcquire(p) == p > 0

\* ------------------------------------------------------------- add_urls
AddUrlsStoreFailed(hist, tasks) ==
    [u \in DOMAIN hist \cup DOMAIN tasks |->
        IF u \in DOMAIN tasks
        THEN (IF tasks[u].st = "ok" THEN <<tasks[u].snap>> ELSE << >>)
        ELSE hist[u]]

\* lines 47-51: every successful result becomes the URL's whole history
AddUrlsStore(hist, tasks) ==
    LET ok == {u \in DOMAIN tasks : tasks[u].st = "ok"}
    IN  [u \in DOMAIN hist \cup ok |->
            IF u \in ok THEN <<tasks[u].snap>> ELSE hist[u]]

\* lines 43-45: the call creates one fetch task per URL and gathers them
AddUrlsCall(S) ==
    /\ addPc = "idle"
    /\ addPc' = "gather"
    /\ addTask' = [u \in S |-> Waiting]
    /\ UNCHANGED <<history, permits, clock, monPc, monTask, rounds, ready,
                   roundStart, analyticsVars, changesVars, failedUrls>>

\* a caller of the library calls add_urls with any URLs, at any time (a call
\* with no URL suspends nowhere and stores nothing)
AddUrls ==
    /\ \E S \in SUBSET URLs : S # {} /\ AddUrlsCall(S)
    /\ UNCHANGED mainPc

\* lines 45-51: the gather is complete and the results are stored
AddStore ==
    /\ addPc = "gather"
    /\ ready # << >>
    /\ Head(ready) = "add"
    /\ ready' = Tail(ready)
    /\ history' = AddUrlsStore(history, addTask)
    /\ addPc' = "close"
    /\ UNCHANGED <<permits, clock, addTask, mainPc, monPc, monTask, rounds,
                   roundStart, analyticsVars, changesVars, failedUrls>>

\* line 43: the session is closed on leaving the async with; the call returns
AddUrlsReturn ==
    /\ addPc = "close"
    /\ addPc' = "idle"
    /\ addTask' = NoTasks
    /\ UNCHANGED <<history, permits, clock, mainPc, monPc, monTask, rounds, ready,
                   roundStart, analyticsVars, changesVars, failedUrls>>

\* ------------------------------------------------------------- _fetch_and_analyze
\* datetime.now() at line 73: not before the instant read last
Now == {t \in {clock, clock + 1} : t <= MaxTime}

\* line 55: async with self.semaphore
AddAcquire(u) ==
    /\ addPc = "gather"
    /\ u \in DOMAIN addTask
    /\ addTask[u].st = "waiting"
    /\ CanAcquire(permits)
    /\ permits' = permits - 1
    /\ addTask' = [addTask EXCEPT ![u] = Fetching]
    /\ UNCHANGED <<history, clock, addPc, mainPc, monPc, monTask, rounds, ready,
                   roundStart, analyticsVars, changesVars, failedUrls>>

\* lines 56-80: the response arrives, the snapshot is built, the permit released
AddFetchOk(u) ==
    /\ addPc = "gather"
    /\ u \in DOMAIN addTask
    /\ addTask[u].st = "fetching"
    /\ \E h \in Hashes, t \in Now :
          /\ clock' = t
          /\ addTask' = [addTask EXCEPT ![u] = Fetched(PageSnapshot(h, t))]
    /\ permits' = permits + 1
    /\ failedUrls' = failedUrls \ {u}
    /\ ready' = Resume("add", addTask')
    /\ UNCHANGED <<history, addPc, mainPc, monPc, monTask, rounds, roundStart,
                   analyticsVars, changesVars>>

\* lines 56-57: the transport raises, the permit is released
AddFetchFail(u) ==
    /\ addPc = "gather"
    /\ u \in DOMAIN addTask
    /\ addTask[u].st = "fetching"
    /\ addTask' = [addTask EXCEPT ![u] = Failed]
    /\ permits' = permits + 1
    /\ failedUrls' = failedUrls \cup {u}
    /\ ready' = Resume("add", addTask')
    /\ UNCHANGED <<history, clock, addPc, mainPc, monPc, monTask, rounds, roundStart,
                   analyticsVars, changesVars>>

MonAcquire(u) ==
    /\ monPc = "gather"
    /\ u \in DOMAIN monTask
    /\ monTask[u].st = "waiting"
    /\ CanAcquire(permits)
    /\ permits' = permits - 1
    /\ monTask' = [monTask EXCEPT ![u] = Fetching]
    /\ UNCHANGED <<history, clock, addPc, addTask, mainPc, monPc, rounds, ready,
                   roundStart, analyticsVars, changesVars, failedUrls>>

MonFetchOk(u) ==
    /\ monPc = "gather"
    /\ u \in DOMAIN monTask
    /\ monTask[u].st = "fetching"
    /\ \E h \in Hashes, t \in Now :
          /\ clock' = t
          /\ monTask' = [monTask EXCEPT ![u] = Fetched(PageSnapshot(h, t))]
    /\ permits' = permits + 1
    /\ failedUrls' = failedUrls \ {u}
    /\ ready' = Resume("mon", monTask')
    /\ UNCHANGED <<history, addPc, addTask, mainPc, monPc, rounds, roundStart,
                   analyticsVars, changesVars>>

MonFetchFail(u) ==
    /\ monPc = "gather"
    /\ u \in DOMAIN monTask
    /\ monTask[u].st = "fetching"
    /\ monTask' = [monTask EXCEPT ![u] = Failed]
    /\ permits' = permits + 1
    /\ failedUrls' = failedUrls \cup {u}
    /\ ready' = Resume("mon", monTask')
    /\ UNCHANGED <<history, clock, addPc, addTask, mainPc, monPc, rounds, roundStart,
                   analyticsVars, changesVars>>

\* ------------------------------------------------------------- monitor
MonitorStoreAlways(hist, r) ==
    IF r.st = "fail" THEN hist ELSE Append(hist, r.snap)

MonitorStoreReplace(hist, r) ==
    IF r.st = "fail" THEN hist
    ELSE IF hist = << >> \/ r.snap.hash # Last(hist).hash
         THEN [hist EXCEPT ![Len(hist)] = r.snap]
         ELSE hist

MonitorStoreOnFail(hist, r) ==
    IF r.st = "fail" THEN << >>
    ELSE IF hist = << >> \/ r.snap.hash # Last(hist).hash
         THEN Append(hist, r.snap)
         ELSE hist

\* lines 126-132: the loop body for one URL and its result
MonitorStore(hist, r) ==
    IF r.st = "fail" THEN hist
    ELSE IF hist = << >> \/ r.snap.hash # Last(hist).hash
         THEN Append(hist, r.snap)
         ELSE hist

\* asyncio.create_task(monitor.monitor(...)): the loop has not run yet
MonCreateTask ==
    /\ monPc = "idle"
    /\ monPc' = "start"
    /\ UNCHANGED <<history, permits, clock, addPc, addTask, monTask, rounds, ready,
                   analyticsVars, changesVars, failedUrls>>

\* lines 116-123: the round reads the tracked URLs and gathers their fetches;
\* with no URL it sleeps
MonRoundBegin ==
    /\ monPc \in {"start", "sleep"}
    /\ rounds < MaxRounds
    /\ rounds' = rounds + 1
    /\ IF DOMAIN history = {}
       THEN /\ monPc' = "sleep"
            /\ monTask' = NoTasks
       ELSE /\ monPc' = "gather"
            /\ monTask' = [u \in DOMAIN history |-> Waiting]
    /\ UNCHANGED <<history, permits, clock, addPc, addTask, mainPc, ready,
                   analyticsVars, changesVars, failedUrls>>

MonCreate ==
    /\ MonCreateTask
    /\ UNCHANGED <<mainPc, roundStart>>

MonRound ==
    /\ MonRoundBegin
    /\ UNCHANGED roundStart

\* lines 123-132: the gather is complete; the loop over the results has no await
MonStore ==
    /\ monPc = "gather"
    /\ ready # << >>
    /\ Head(ready) = "mon"
    /\ ready' = Tail(ready)
    /\ history' = [u \in DOMAIN history |->
                     IF u \in DOMAIN monTask
                     THEN MonitorStore(history[u], monTask[u])
                     ELSE history[u]]
    /\ monPc' = "close"
    /\ UNCHANGED <<permits, clock, addPc, addTask, mainPc, monTask, rounds,
                   roundStart, analyticsVars, changesVars, failedUrls>>

MonCloseSessionNoSleep ==
    /\ monPc = "close"
    /\ monPc' = "gather"
    /\ monTask' = [u \in DOMAIN history |-> Waiting]
    /\ UNCHANGED <<history, permits, clock, addPc, addTask, mainPc, rounds, ready,
                   roundStart, analyticsVars, changesVars, failedUrls>>

\* line 121: the session is closed on leaving the async with; line 134 follows
MonCloseSession ==
    /\ monPc = "close"
    /\ monPc' = "sleep"
    /\ monTask' = NoTasks
    /\ UNCHANGED <<history, permits, clock, addPc, addTask, mainPc, rounds, ready,
                   roundStart, analyticsVars, changesVars, failedUrls>>

MonCancelLeak ==
    /\ monPc \in {"start", "gather", "close", "sleep"}
    /\ monPc' = "cancelled"
    /\ monTask' = NoTasks
    /\ ready' = SelectSeq(ready, LAMBDA o : o # "mon")
    /\ UNCHANGED <<history, permits, clock, addPc, addTask, mainPc, rounds, roundStart,
                   analyticsVars, changesVars, failedUrls>>

\* monitoring_task.cancel(): CancelledError is raised at the await the loop is
\* suspended in; the gather cancels its fetches, and a fetch holding a permit
\* releases it on leaving the async with
MonCancel ==
    /\ monPc \in {"start", "gather", "close", "sleep"}
    /\ monPc' = "cancelled"
    /\ permits' = permits + Cardinality(Holding(monTask))
    /\ monTask' = NoTasks
    /\ ready' = SelectSeq(ready, LAMBDA o : o # "mon")
    /\ UNCHANGED <<history, clock, addPc, addTask, mainPc, rounds, roundStart,
                   analyticsVars, changesVars, failedUrls>>

\* ------------------------------------------------------------- main
\* url-monitor-example.py line 17: await monitor.add_urls(urls)
MainAddUrls ==
    /\ mainPc = "init"
    /\ mainPc' = "added"
    /\ \E S \in SUBSET URLs : S # {} /\ AddUrlsCall(S)

\* line 21: the monitor task is created once add_urls has returned
MainCreate ==
    /\ mainPc = "added"
    /\ addPc = "idle"
    /\ mainPc' = "monitoring"
    /\ MonCreateTask
    /\ roundStart' = history

MainRound ==
    /\ MonRoundBegin
    /\ roundStart' = history

\* ------------------------------------------------------------- rationals
\* a float is modelled by the exact rational <<numerator, denominator>>
RECURSIVE GCD(_, _)
GCD(a, b) == IF b = 0 THEN a ELSE GCD(b, a % b)

Abs(x) == IF x < 0 THEN 0 - x ELSE x

Max(a, b) == IF a >= b THEN a ELSE b

Rat(n, d) ==
    LET g == GCD(Abs(n), Abs(d))
        sgn == IF d < 0 THEN 0 - 1 ELSE 1
    IN  <<(sgn * n) \div g, (sgn * d) \div g>>

RatAdd(x, y) == Rat(x[1] * y[2] + y[1] * x[2], x[2] * y[2])

RatSub(x, y) == Rat(x[1] * y[2] - y[1] * x[2], x[2] * y[2])

RatMul(x, y) == Rat(x[1] * y[1], x[2] * y[2])

Zero == Rat(0, 1)

One == Rat(1, 1)

RECURSIVE RatSum(_)
RatSum(xs) == IF xs = << >> THEN Zero ELSE RatAdd(xs[1], RatSum(Tail(xs)))

\* np.mean of a non-empty list
Mean(xs) == RatMul(RatSum(xs), Rat(1, Len(xs)))

\* ------------------------------------------------------------- analyze_url
\* the snapshots handed to URLAnalytics: timestamps count days, text_content
\* is given by its length, compound is the sentiment score, xrt the
\* X-Response-Time header: absent, not a number, or a number of seconds
NoHeader == [present |-> FALSE, number |-> FALSE, value |-> 0]

AnalyticsSnapshot(h, t, st, n) ==
    [hash |-> h, timestamp |-> t, status_code |-> st, text_len |-> n,
     compound |-> 0, xrt |-> NoHeader]

RECURSIVE SeqsUpTo(_, _)
SeqsUpTo(S, n) ==
    IF n = 0 THEN {<< >>}
    ELSE LET shorter == SeqsUpTo(S, n - 1)
         IN  shorter \cup {Append(s, x) : s \in {q \in shorter : Len(q) = n - 1}, x \in S}

\* the status codes a response carries: success and a server error
StatusSet == {200, 500}

\* the histories handed to get_url_metrics and get_comparative_analysis:
\* every sequence of the two statuses, the empty one included
CacheInputs ==
    SeqsUpTo({AnalyticsSnapshot(1, 0, st, MaxTextLen) : st \in StatusSet}, MaxSnaps)

\* lines 38-41 (analytics.py)
Changes(snapshots) ==
    Cardinality({i \in 2..Len(snapshots) : snapshots[i].hash # snapshots[i - 1].hash})

TotalDays(snapshots) == Last(snapshots).timestamp - snapshots[1].timestamp

ChangeFrequencyAbs(snapshots) ==
    IF TotalDays(snapshots) # 0
    THEN Rat(Changes(snapshots), Abs(TotalDays(snapshots)))
    ELSE Zero

ChangeFrequency(snapshots) ==
    IF TotalDays(snapshots) > 0
    THEN Rat(Changes(snapshots), TotalDays(snapshots))
    ELSE Zero

\* lines 43-45: np.mean and np.std of the compound scores; the volatility is
\* kept as its square, the population variance
SentimentScores(snapshots) == [i \in 1..Len(snapshots) |-> Rat(snapshots[i].compound, 1)]

AvgSentiment(snapshots) == Mean(SentimentScores(snapshots))

SentimentVolatility(snapshots) ==
    LET xs == SentimentScores(snapshots)
        m == Mean(xs)
    IN  Mean([i \in 1..Len(xs) |-> RatMul(RatSub(xs[i], m), RatSub(xs[i], m))])

\* lines 47-56: the status histogram and the parsable response times
StatusCodes(snapshots) ==
    LET seen == {snapshots[i].status_code : i \in 1..Len(snapshots)}
    IN  [c \in seen |-> Cardinality({i \in 1..Len(snapshots) : snapshots[i].status_code = c})]

RECURSIVE ResponseTimes(_)
ResponseTimes(snapshots) ==
    IF snapshots = << >> THEN << >>
    ELSE LET h == snapshots[1].xrt
         IN  (IF h.present /\ h.number THEN <<h.value>> ELSE << >>)
                 \o ResponseTimes(Tail(snapshots))

\* lines 58-67: the division at line 63 raises when both texts are empty
StabilityRaises(snapshots) ==
    \E i \in 2..Len(snapshots) :
        Max(snapshots[i - 1].text_len, snapshots[i].text_len) = 0

ContentStability(snapshots) ==
    IF Len(snapshots) > 1
    THEN Mean([j \in 1..(Len(snapshots) - 1) |->
                 LET prev_len == snapshots[j].text_len
                     curr_len == snapshots[j + 1].text_len
                 IN  RatSub(One, Rat(Abs(curr_len - prev_len), Max(prev_len, curr_len)))])
    ELSE One

NoMetrics == [change_frequency |-> Zero]

URLMetrics(snapshots) ==
    [change_frequency |-> ChangeFrequency(snapshots),
     avg_sentiment |-> AvgSentiment(snapshots),
     sentiment_volatility |-> SentimentVolatility(snapshots),
     response_times |-> ResponseTimes(snapshots),
     status_codes |-> StatusCodes(snapshots),
     content_stability |-> ContentStability(snapshots)]

\* analyze_url: the metrics, or the exception it raises
AnalyzeUrl(snapshots) ==
    IF snapshots = << >>
    THEN [error |-> "ValueError", metrics |-> NoMetrics]
    ELSE IF StabilityRaises(snapshots)
    THEN [error |-> "ZeroDivisionError", metrics |-> NoMetrics]
    ELSE [error |-> "none", metrics |-> URLMetrics(snapshots)]

\* the sequences analyze_url is called with: every hash, day and text length
\* in any order, and the history of hashes A, A, B, B, C over 4 days
ExampleHistory ==
    <<AnalyticsSnapshot(1, 0, 200, 1), AnalyticsSnapshot(1, 1, 200, 1),
      AnalyticsSnapshot(2, 2, 200, 1), AnalyticsSnapshot(2, 3, 200, 1),
      AnalyticsSnapshot(3, 4, 200, 1)>>

AnalyzeInputs ==
    SeqsUpTo({AnalyticsSnapshot(h, t, 200, n) :
                 h \in Hashes, t \in 0..MaxDays, n \in 0..MaxTextLen}, MaxLen)
        \cup {ExampleHistory}

Pending == [error |-> "pending", metrics |-> NoMetrics]

\* a caller calls analyze_url of either file; the call returns or raises
AnalyzeUrlCall ==
    /\ analyzeRet = Pending
    /\ analyzeRet' = AnalyzeUrl(analyzeArg)
    /\ UNCHANGED <<analyzeArg, impl, metrics_cache, wall, call, cmp, monitorVars>>

\* line 29: self.analyze_url(snapshots), tabulated over the inputs
Analysis == [s \in CacheInputs |-> AnalyzeUrl(s)]

\* ------------------------------------------------------------- get_url_metrics
\* timedelta(hours=1), the wall clock counting half hours
CacheDuration == 2

NoCall ==
    [url |-> 0, snapshots |-> << >>, at |-> 0 - 1, outcome |-> "none",
     ret |-> NoMetrics, analyzed |-> FALSE, expired |-> FALSE, flip |-> FALSE]

NoScores == << >>

NoCompare == [input |-> << >>, outcome |-> "none", scores |-> NoScores, flip |-> FALSE]

CacheValidInclusive(cache, url, now) ==
    url \in DOMAIN cache /\ now - cache[url][1] <= CacheDuration

CacheValidNever(cache, url, now) == FALSE

\* lines 24-27: an entry is used while now - computed-at < cache_duration
CacheValid(cache, url, now) ==
    url \in DOMAIN cache /\ now - cache[url][1] < CacheDuration

\* the entry written before analyze_url has accepted the input
GetUrlMetricsResultStoreFirst(cache, url, snapshots, now, stored) ==
    LET hit == CacheValid(cache, url, now)
        res == Analysis[snapshots]
    IN  [cache |-> IF ~hit
                   THEN [u \in DOMAIN cache \cup {url} |->
                           IF u = url THEN <<stored, res.metrics>> ELSE cache[u]]
                   ELSE cache,
         outcome |-> IF hit \/ res.error = "none" THEN "return" ELSE res.error,
         ret |-> IF hit THEN cache[url][2] ELSE res.metrics,
         analyzed |-> ~hit,
         expired |-> url \in DOMAIN cache /\ ~hit,
         last |-> IF ~hit THEN stored ELSE now]

\* get_url_metrics on the cache given, at instant now, a computed entry being
\* stored with instant stored: the cache it leaves and what the caller gets
GetUrlMetricsResult(cache, url, snapshots, now, stored) ==
    LET hit == CacheValid(cache, url, now)
        res == Analysis[snapshots]
    IN  [cache |-> IF ~hit /\ res.error = "none"
                   THEN [u \in DOMAIN cache \cup {url} |->
                           IF u = url THEN <<stored, res.metrics>> ELSE cache[u]]
                   ELSE cache,
         outcome |-> IF hit \/ res.error = "none" THEN "return" ELSE res.error,
         ret |-> IF hit THEN cache[url][2] ELSE res.metrics,
         analyzed |-> ~hit,
         expired |-> url \in DOMAIN cache /\ ~hit,
         last |-> IF ~hit /\ res.error = "none" THEN stored ELSE now]

\* the call made at instant now; a computed entry is stored with instant stored
GetUrlMetricsCall(url, snapshots, now, stored) ==
    LET r == GetUrlMetricsResult(metrics_cache, url, snapshots, now, stored)
    IN  /\ metrics_cache' = r.cache
        /\ wall' = r.last
        /\ call' = [url |-> url, snapshots |-> snapshots, at |-> now,
                    outcome |-> r.outcome,
                    ret |-> r.ret,
                    analyzed |-> r.analyzed,
                    expired |-> r.expired,
                    flip |-> ~call.flip]
        /\ cmp' = [NoCompare EXCEPT !.flip = cmp.flip]
        /\ UNCHANGED <<impl, analyzeVars, monitorVars>>

\* analytics.py lines 22-31: datetime.now() is read again when the entry is stored
AnalyticsGetUrlMetrics(url, snapshots) ==
    /\ impl = "analytics"
    /\ \E stored \in {t \in {wall, wall + 1} : t <= MaxWall} :
          GetUrlMetricsCall(url, snapshots, wall, stored)

\* url-monitor-analytics.py lines 73-84: now is read once, on entry
MonitorAnalyticsGetUrlMetrics(url, snapshots) ==
    /\ impl = "url_monitor_analytics"
    /\ GetUrlMetricsCall(url, snapshots, wall, wall)

GetUrlMetrics ==
    \E url \in URLs, snapshots \in CacheInputs :
        \/ AnalyticsGetUrlMetrics(url, snapshots)
        \/ MonitorAnalyticsGetUrlMetrics(url, snapshots)

\* time passes between two calls
WallTick ==
    /\ wall < MaxWall
    /\ wall' = wall + 1
    /\ UNCHANGED <<impl, metrics_cache, call, cmp, analyzeVars, monitorVars>>

\* ------------------------------------------------------------- get_comparative_analysis
RatDiv(x, y) == Rat(x[1] * y[2], x[2] * y[1])

RatLeq(x, y) == x[1] * y[2] <= y[1] * x[2]

\* max of a non-empty set of floats
RatMax(S) == CHOOSE x \in S : \A y \in S : RatLeq(y, x)

\* the orders in which a dict over the URLs of S is iterated
Orders(S) ==
    {o \in UNION {[1..n -> S] : n \in {Cardinality(S)}} :
        \A i, j \in 1..Len(o) : i # j => o[i] # o[j]}

\* lines 92-95: get_url_metrics for every URL in turn, all within one instant
\* of the wall clock; an exception ends the comprehension, the entries stored
\* before it stay
RECURSIVE BaseMetrics(_, _, _, _, _)
BaseMetricsNext(r, order, now, input, base) ==
    IF r.outcome # "return"
    THEN [cache |-> r.cache, error |-> r.outcome, base |-> base]
    ELSE BaseMetrics(Tail(order), now, input, r.cache,
                     [u \in DOMAIN base \cup {Head(order)} |->
                         IF u = Head(order) THEN r.ret ELSE base[u]])

BaseMetrics(order, now, input, cache, base) ==
    IF order = << >>
    THEN [cache |-> cache, error |-> "none", base |-> base]
    ELSE BaseMetricsNext(
             GetUrlMetricsResult(cache, Head(order), input[Head(order)], now, now),
             order, now, input, base)

\* sum(metrics.status_codes.values())
StatusTotal(metrics) ==
    Cardinality(UNION {{<<c, k>> : k \in 1..metrics.status_codes[c]} :
                          c \in DOMAIN metrics.status_codes})

\* metrics.status_codes.get(200, 0)
StatusOk(metrics) ==
    IF 200 \in DOMAIN metrics.status_codes THEN metrics.status_codes[200] ELSE 0

ScoresFailureRate(metrics, max_change_freq, max_volatility) ==
    [dynamism_score |-> Zero,
     reliability_score |->
         Rat(StatusTotal(metrics) - StatusOk(metrics), StatusTotal(metrics)),
     stability_score |-> metrics.content_stability,
     volatility_score_sq |-> Zero,
     performance_score |-> One]

\* lines 102-116: the scores of one URL; the volatility score is kept as its
\* square, sentiment_stability being 1 minus its root
Scores(metrics, max_change_freq, max_volatility) ==
    LET avg_response_time ==
            IF metrics.response_times # << >>
            THEN Mean([i \in 1..Len(metrics.response_times) |->
                         Rat(metrics.response_times[i], 1)])
            ELSE Zero
    IN  [dynamism_score |->
             IF max_change_freq[1] > 0
             THEN RatDiv(metrics.change_frequency, max_change_freq) ELSE Zero,
         reliability_score |-> Rat(StatusOk(metrics), StatusTotal(metrics)),
         stability_score |-> metrics.content_stability,
         volatility_score_sq |->
             IF max_volatility[1] > 0
             THEN RatDiv(metrics.sentiment_volatility, max_volatility) ELSE Zero,
         performance_score |->
             IF avg_response_time[1] > 0
             THEN RatDiv(One, RatAdd(One, avg_response_time)) ELSE One]

CompareResultSwallow(order, now, input, cache) ==
    LET b == BaseMetrics(order, now, input, cache, << >>)
    IN  [cache |-> b.cache, outcome |-> "return",
         scores |-> [u \in DOMAIN b.base |-> Scores(b.base[u], Zero, Zero)]]

\* lines 86-118: what the call returns or raises, and the cache it leaves
CompareResult(order, now, input, cache) ==
    LET b == BaseMetrics(order, now, input, cache, << >>)
    IN  IF order = << >>
        THEN [cache |-> cache, outcome |-> "return", scores |-> NoScores]
        ELSE IF b.error # "none"
        THEN [cache |-> b.cache, outcome |-> b.error, scores |-> NoScores]
        ELSE IF \E u \in DOMAIN b.base : StatusTotal(b.base[u]) = 0
        THEN [cache |-> b.cache, outcome |-> "ZeroDivisionError", scores |-> NoScores]
        ELSE LET max_change_freq ==
                     RatMax({b.base[u].change_frequency : u \in DOMAIN b.base})
                 max_volatility ==
                     RatMax({b.base[u].sentiment_volatility : u \in DOMAIN b.base})
             IN  [cache |-> b.cache, outcome |-> "return",
                  scores |-> [u \in DOMAIN b.base |->
                                Scores(b.base[u], max_change_freq, max_volatility)]]

\* url-monitor-analytics.py lines 86-118: a caller compares any URLs, each
\* with any snapshot sequence; the input dict is iterated in its own order
GetComparativeAnalysis ==
    /\ impl = "url_monitor_analytics"
    /\ \E S \in SUBSET URLs :
         \E input \in [S -> CacheInputs], order \in Orders(S) :
             LET r == CompareResult(order, wall, input, metrics_cache)
             IN  /\ metrics_cache' = r.cache
                 /\ cmp' = [input |-> input, outcome |-> r.outcome,
                            scores |-> r.scores, flip |-> ~cmp.flip]
    /\ call' = [NoCall EXCEPT !.flip = call.flip]
    /\ UNCHANGED <<impl, wall, analyzeVars, monitorVars>>

\* ------------------------------------------------------------- get_changes
\* text_content: the strings over two characters
Texts == SeqsUpTo({1, 2}, MaxChars)

\* a snapshot as get_changes reads it
TextSnapshot(t, text) == [hash |-> 1, timestamp |-> t, text_content |-> text]

\* the histories of one URL: every sequence of texts, stamped in order
TextHistories ==
    {[i \in 1..Len(texts) |-> TextSnapshot(i - 1, texts[i])] :
        texts \in SeqsUpTo(Texts, MaxHist)}

\* the thresholds of a call: 0, the default 0.1, and 0.5
Thresholds == {Zero, Rat(1, 10), Rat(1, 2)}

\* difflib.SequenceMatcher.find_longest_match over whole strings: the blocks
\* a[i..i+k-1] = b[j..j+k-1]
MatchingBlocks(a, b) ==
    {m \in (1..Len(a)) \X (1..Len(b)) \X (1..Len(a)) :
        /\ m[1] + m[3] - 1 <= Len(a)
        /\ m[2] + m[3] - 1 <= Len(b)
        /\ SubSeq(a, m[1], m[1] + m[3] - 1) = SubSeq(b, m[2], m[2] + m[3] - 1)}

\* the longest block, of those the earliest in a, of those the earliest in b
LongestMatch(a, b) ==
    CHOOSE m \in MatchingBlocks(a, b) :
        \A n \in MatchingBlocks(a, b) :
            \/ m[3] > n[3]
            \/ m[3] = n[3] /\ m[1] < n[1]
            \/ m[3] = n[3] /\ m[1] = n[1] /\ m[2] <= n[2]

\* get_matching_blocks: the longest match, then the same to its left and right
RECURSIVE MatchCount(_, _)
MatchCount(a, b) ==
    IF MatchingBlocks(a, b) = {} THEN 0
    ELSE LongestMatch(a, b)[3]
         + MatchCount(SubSeq(a, 1, LongestMatch(a, b)[1] - 1),
                      SubSeq(b, 1, LongestMatch(a, b)[2] - 1))
         + MatchCount(SubSeq(a, LongestMatch(a, b)[1] + LongestMatch(a, b)[3], Len(a)),
                      SubSeq(b, LongestMatch(a, b)[2] + LongestMatch(a, b)[3], Len(b)))

\* SequenceMatcher(None, a, b).ratio(): 2 * matches / total length, 1.0 for
\* two empty strings
Ratio(a, b) ==
    IF Len(a) + Len(b) = 0 THEN One ELSE Rat(2 * MatchCount(a, b), Len(a) + Len(b))

RatAbs(x) == <<Abs(x[1]), x[2]>>

ExceedsInclusive(similarity, threshold) ==
    RatLeq(threshold, RatAbs(RatSub(One, similarity)))

\* line 100: abs(1 - similarity) > threshold
Exceeds(similarity, threshold) ==
    ~RatLeq(RatAbs(RatSub(One, similarity)), threshold)

\* lines 90-101: the loop over the pairs, from pair i on
RECURSIVE ChangesFrom(_, _, _)
ChangesFrom(snapshots, i, threshold) ==
    IF i > Len(snapshots) THEN << >>
    ELSE (IF Exceeds(Ratio(snapshots[i - 1].text_content, snapshots[i].text_content),
                     threshold)
          THEN <<<<snapshots[i].timestamp,
                   Ratio(snapshots[i - 1].text_content, snapshots[i].text_content)>>>>
          ELSE << >>)
         \o ChangesFrom(snapshots, i + 1, threshold)

\* lines 82-103
GetChangesResult(hist, url, threshold) ==
    IF url \notin DOMAIN hist \/ Len(hist[url]) < 2 THEN << >>
    ELSE ChangesFrom(hist[url], 2, threshold)

\* a caller asks for the changes of any URL with any threshold
GetChanges ==
    /\ changesRet = NoEvents
    /\ changesRet' = [pending |-> FALSE,
                      events |-> GetChangesResult(history, changesArg.url,
                                                  changesArg.threshold)]
    /\ UNCHANGED <<history, permits, clock, addPc, addTask, mainPc, monPc, monTask,
                   rounds, ready, roundStart, failedUrls, changesArg, analyticsVars>>

\* ------------------------------------------------------------- specifications
InitMonitor ==
    /\ history = << >>
    /\ permits = ConcurrencyLimit
    /\ clock = 0
    /\ addPc = "idle"
    /\ addTask = NoTasks
    /\ mainPc = "init"
    /\ monPc = "idle"
    /\ monTask = NoTasks
    /\ rounds = 0
    /\ ready = << >>
    /\ roundStart = << >>
    /\ failedUrls = {}
    /\ changesArg = NoQuery
    /\ changesRet = NoEvents

InitAnalytics ==
    /\ metrics_cache = << >>
    /\ wall = 0
    /\ call = NoCall
    /\ cmp = NoCompare
    /\ analyzeArg = << >>
    /\ analyzeRet = Pending

Init ==
    /\ InitMonitor
    /\ InitAnalytics
    /\ impl = "analytics"

Fetch ==
    \E u \in URLs :
        \/ AddAcquire(u)
        \/ AddFetchOk(u)
        \/ AddFetchFail(u)
        \/ MonAcquire(u)
        \/ MonFetchOk(u)
        \/ MonFetchFail(u)

\* the library: add_urls calls and the monitor loop interleave freely
Next ==
    \/ AddUrls
    \/ AddStore
    \/ AddUrlsReturn
    \/ Fetch
    \/ MonCreate
    \/ MonRound
    \/ MonStore
    \/ MonCloseSession
    \/ MonCancel

Spec == Init /\ [][Next]_vars

\* the example's main: add_urls returns, then the loop runs until cancelled
NextMain ==
    \/ MainAddUrls
    \/ AddStore
    \/ AddUrlsReturn
    \/ Fetch
    \/ MainCreate
    \/ MainRound
    \/ MonStore
    \/ MonCloseSession
    \/ MonCancel

SpecMain == Init /\ [][NextMain]_vars

\* a URLAnalytics object of either file, called at any instants
InitCache ==
    /\ InitMonitor
    /\ InitAnalytics
    /\ impl \in {"analytics", "url_monitor_analytics"}

NextCache ==
    \/ GetUrlMetrics
    \/ WallTick

SpecCache == InitCache /\ [][NextCache]_vars

\* get_changes, called once on a monitor whose first URL has any history
InitChanges ==
    /\ history \in {<< >>} \cup {<<h>> : h \in TextHistories \ {<< >>}}
    /\ permits = ConcurrencyLimit
    /\ clock = 0
    /\ addPc = "idle"
    /\ addTask = NoTasks
    /\ mainPc = "init"
    /\ monPc = "idle"
    /\ monTask = NoTasks
    /\ rounds = 0
    /\ ready = << >>
    /\ roundStart = << >>
    /\ failedUrls = {}
    /\ changesArg \in [url : URLs, threshold : Thresholds]
    /\ changesRet = NoEvents
    /\ InitAnalytics
    /\ impl = "analytics"

NextChanges == GetChanges

SpecChanges == InitChanges /\ [][NextChanges]_vars

\* URLMonitor(concurrency_limit=SmallLimit) on which add_urls is called, the
\* calls one after the other; every transport call returns or fails, and the
\* event loop runs every task that can run
InitAddUrls ==
    /\ history = << >>
    /\ permits = SmallLimit
    /\ clock = 0
    /\ addPc = "idle"
    /\ addTask = NoTasks
    /\ mainPc = "init"
    /\ monPc = "idle"
    /\ monTask = NoTasks
    /\ rounds = 0
    /\ ready = << >>
    /\ roundStart = << >>
    /\ failedUrls = {}
    /\ changesArg = NoQuery
    /\ changesRet = NoEvents
    /\ InitAnalytics
    /\ impl = "analytics"

AddFetch ==
    \E u \in URLs :
        \/ AddAcquire(u)
        \/ AddFetchOk(u)
        \/ AddFetchFail(u)

NextAddUrls ==
    \/ AddUrls
    \/ AddFetch
    \/ AddStore
    \/ AddUrlsReturn

FairAddUrls ==
    /\ \A u \in URLs : WF_vars(AddAcquire(u))
    /\ \A u \in URLs : WF_vars(AddFetchOk(u) \/ AddFetchFail(u))
    /\ WF_vars(AddStore)
    /\ WF_vars(AddUrlsReturn)

SpecAddUrls == InitAddUrls /\ [][NextAddUrls]_vars /\ FairAddUrls

\* analyze_url of either file, called once with any snapshot sequence
InitAnalyze ==
    /\ InitMonitor
    /\ metrics_cache = << >>
    /\ wall = 0
    /\ call = NoCall
    /\ cmp = NoCompare
    /\ impl \in {"analytics", "url_monitor_analytics"}
    /\ analyzeArg \in AnalyzeInputs
    /\ analyzeRet = Pending

NextAnalyze == AnalyzeUrlCall

SpecAnalyze == InitAnalyze /\ [][NextAnalyze]_vars

\* a URLAnalytics object: get_url_metrics and, where the class has it,
\* get_comparative_analysis, called in any order, at any instants
InitCompare ==
    /\ InitMonitor
    /\ InitAnalytics
    /\ impl \in {"analytics", "url_monitor_analytics"}

NextCompare ==
    \/ GetUrlMetrics
    \/ GetComparativeAnalysis
    \/ WallTick

SpecCompare == InitCompare /\ [][NextCompare]_vars

\* ------------------------------------------------------------- claims
\* C1: in every reachable state of the interleavings of add_urls calls and
\* monitor rounds, at most concurrency_limit fetches are inside the
\* semaphore-guarded section of _fetch_and_analyze
C1_ConcurrencyBound == InFlight <= ConcurrencyLimit

\* every permit is held, by fetches of both callers, and a further fetch waits
C1_Witness ==
    /\ InFlight = ConcurrencyLimit
    /\ Holding(addTask) # {}
    /\ Holding(monTask) # {}
    /\ \E u \in DOMAIN addTask : addTask[u].st = "waiting"

\* the step in which the monitor loop processes the results of its gather
MonStoreStep == monPc = "gather" /\ monPc' \notin {"gather", "cancelled"}

\* C2: in a monitor round, a successful fetch whose hash equals the hash of
\* the URL's current last snapshot leaves the URL's history unchanged
C2_SameHashKeepsHistory ==
    [][MonStoreStep =>
        \A u \in DOMAIN monTask :
            (/\ monTask[u].st = "ok"
             /\ history[u] # << >>
             /\ monTask[u].snap.hash = Last(history[u]).hash)
                => history'[u] = history[u]]_vars

\* the round is over; a later fetch with the old hash was not stored
C2_Witness ==
    /\ monPc = "close"
    /\ \E u \in DOMAIN monTask :
          /\ monTask[u].st = "ok"
          /\ monTask[u].snap.hash = Last(history[u]).hash
          /\ monTask[u].snap.timestamp > Last(history[u]).timestamp

\* C3: in a monitor round, a successful fetch whose hash differs from the hash
\* of the URL's current last snapshot grows the history by exactly that
\* snapshot, as its last element, the earlier elements unchanged
C3_NewHashAppends ==
    [][MonStoreStep =>
        \A u \in DOMAIN monTask :
            (/\ monTask[u].st = "ok"
             /\ history[u] # << >>
             /\ monTask[u].snap.hash # Last(history[u]).hash)
                => /\ Len(history'[u]) = Len(history[u]) + 1
                   /\ Last(history'[u]) = monTask[u].snap
                   /\ SubSeq(history'[u], 1, Len(history[u])) = history[u]]_vars

\* the round is over; the snapshot with the new hash is the last of two
C3_Witness ==
    /\ monPc = "close"
    /\ \E u \in DOMAIN monTask :
          /\ monTask[u].st = "ok"
          /\ Len(history[u]) >= 2
          /\ Last(history[u]) = monTask[u].snap
          /\ history[u][Len(history[u]) - 1].hash # monTask[u].snap.hash

\* C4: in every reachable state the timestamps of every tracked URL's history
\* are non-decreasing in sequence order
C4_TimestampsNonDecreasing ==
    \A u \in DOMAIN history :
        \A i \in 1..(Len(history[u]) - 1) :
            history[u][i].timestamp <= history[u][i + 1].timestamp

\* C5: every URL's history is append-only: its value in a state is a prefix of
\* its value in the next state, and no tracked URL is dropped
C5_AppendOnly ==
    [][\A u \in DOMAIN history :
          /\ u \in DOMAIN history'
          /\ IsPrefix(history[u], history'[u])]_vars

\* the step in which add_urls stores the results of its gather
AddStoreStep == addPc = "gather" /\ addPc' # "gather"

\* C6: add_urls over previously untracked URLs, any of whose fetches fail:
\* each URL whose fetch succeeded gets a history of exactly its own snapshot,
\* each URL whose fetch failed stays absent, and the call goes on to return
C6_AddUrlsIsolatesFailures ==
    [][AddStoreStep =>
        /\ addPc' = "close"
        /\ \A u \in DOMAIN addTask \ DOMAIN history :
              IF addTask[u].st = "ok"
              THEN u \in DOMAIN history' /\ history'[u] = <<addTask[u].snap>>
              ELSE u \notin DOMAIN history']_vars

\* the results are stored: one URL of the call failed and is absent, its
\* sibling is registered with its one snapshot
C6_Witness ==
    /\ addPc = "close"
    /\ \E u, v \in DOMAIN addTask :
          /\ addTask[u].st = "fail"
          /\ u \notin DOMAIN history
          /\ addTask[v].st = "ok"
          /\ v \in DOMAIN history
          /\ history[v] = <<addTask[v].snap>>

\* C7: in a monitor round a URL whose fetch failed keeps its history, the
\* other URLs of the round are still processed (appended when the hash
\* changed), and the loop goes on to close its session and sleep
C7_RoundIsolatesFailures ==
    [][MonStoreStep =>
        /\ monPc' = "close"
        /\ \A u \in DOMAIN monTask :
              /\ u \in DOMAIN history'
              /\ monTask[u].st = "fail" => history'[u] = history[u]
              /\ (/\ monTask[u].st = "ok"
                  /\ history[u] # << >>
                  /\ monTask[u].snap.hash # Last(history[u]).hash)
                     => history'[u] = Append(history[u], monTask[u].snap)]_vars

\* the round is over: one fetch failed, a sibling's new snapshot was appended
C7_Witness ==
    /\ monPc = "close"
    /\ \E u, v \in DOMAIN monTask :
          /\ monTask[u].st = "fail"
          /\ history[u] # << >>
          /\ monTask[v].st = "ok"
          /\ Len(history[v]) >= 2
          /\ Last(history[v]) = monTask[v].snap

\* C8: under main, cancelling the monitor loop at any suspension point leaves
\* every URL's history equal to its value before the current round or to that
\* value with one complete snapshot appended, and a history changes only in
\* the one step that processes the whole batch
C8_CancelLeavesWholeSnapshots ==
    /\ [](monPc = "cancelled" =>
            \A u \in DOMAIN roundStart :
                \/ history[u] = roundStart[u]
                \/ \E s \in Snapshots : history[u] = Append(roundStart[u], s))
    /\ [][(mainPc = "monitoring" /\ history' # history) =>
            /\ MonStoreStep
            /\ DOMAIN history' = DOMAIN history
            /\ \A u \in DOMAIN monTask :
                  \/ history'[u] = history[u]
                  \/ history'[u] = Append(history[u], monTask[u].snap)]_vars

\* the loop was cancelled after a round that appended a snapshot
C8_Witness ==
    /\ monPc = "cancelled"
    /\ \E u \in DOMAIN roundStart : Len(history[u]) = Len(roundStart[u]) + 1

\* a step that is a get_url_metrics call: call is the call before, call' this one
CallStep == call'.flip # call.flip

\* the URL of the call has an entry whose age at the call is below cache_duration
EntryFresh ==
    /\ call'.url \in DOMAIN metrics_cache
    /\ call'.at - metrics_cache[call'.url][1] < CacheDuration

\* the URL of the call has an entry whose age at the call is cache_duration or more
EntryExpired ==
    /\ call'.url \in DOMAIN metrics_cache
    /\ call'.at - metrics_cache[call'.url][1] >= CacheDuration

\* C9 as stated: two calls for one URL less than cache_duration apart, with
\* the same input, return the same metrics, and the second neither invokes
\* analyze_url nor changes the cache
C9_CallsCloserThanDuration ==
    [][(/\ CallStep
        /\ call.url = call'.url
        /\ call.outcome = "return"
        /\ call'.outcome = "return"
        /\ call'.snapshots = call.snapshots
        /\ call'.at - call.at < CacheDuration)
           => /\ call'.ret = call.ret
              /\ ~call'.analyzed
              /\ metrics_cache' = metrics_cache]_vars

\* C9 amended: a call made while the URL's entry is younger than
\* cache_duration (now - computed-at < cache_duration) returns the entry's
\* metrics, the value the call before it returned for that URL, without
\* invoking analyze_url and without changing the cache, whatever its input
C9_FreshEntryReused ==
    [][(CallStep /\ EntryFresh) =>
        /\ call'.outcome = "return"
        /\ call'.ret = metrics_cache[call'.url][2]
        /\ ~call'.analyzed
        /\ metrics_cache' = metrics_cache
        /\ (call.url = call'.url /\ call.outcome = "return") => call'.ret = call.ret]_vars

\* a call returned the entry's metrics although its input analyzes differently
C9_Witness ==
    /\ call.outcome = "return"
    /\ ~call.analyzed
    /\ call.snapshots # << >>
    /\ Analysis[call.snapshots].error = "none"
    /\ Analysis[call.snapshots].metrics # call.ret
    /\ metrics_cache[call.url][2] = call.ret

\* C10 as stated: a call that finds an entry aged cache_duration or more
\* recomputes, replaces the entry and returns the new metrics
C10_ExpiredEntryReplaced ==
    [][(CallStep /\ EntryExpired) =>
        /\ call'.analyzed
        /\ call'.outcome = "return"
        /\ metrics_cache'[call'.url] # metrics_cache[call'.url]
        /\ metrics_cache'[call'.url][2] = call'.ret]_vars

\* C10 amended: a call that finds an entry aged cache_duration or more never
\* returns it: it invokes analyze_url on its input; when analyze_url returns,
\* the entry is replaced by the new metrics with a later computed-at instant
\* and the new metrics are returned; when analyze_url raises (an empty
\* sequence), the call raises that error and the cache is unchanged
C10_ExpiredEntryRecomputed ==
    [][(CallStep /\ EntryExpired) =>
        LET u == call'.url
            res == Analysis[call'.snapshots]
        IN  /\ call'.analyzed
            /\ IF res.error = "none"
               THEN /\ call'.outcome = "return"
                    /\ call'.ret = res.metrics
                    /\ metrics_cache'[u][2] = res.metrics
                    /\ metrics_cache'[u][1] >= call'.at
                    /\ metrics_cache'[u][1] > metrics_cache[u][1]
                    /\ \A v \in DOMAIN metrics_cache \ {u} :
                          metrics_cache'[v] = metrics_cache[v]
               ELSE /\ call'.outcome = res.error
                    /\ metrics_cache' = metrics_cache]_vars

\* a call found an expired entry and returned the metrics it stored in its place
C10_Witness ==
    /\ call.expired
    /\ call.analyzed
    /\ call.outcome = "return"
    /\ metrics_cache[call.url][2] = call.ret
    /\ metrics_cache[call.url][1] >= call.at

\* a step that is a get_comparative_analysis call: cmp' is the call
CompareStep == cmp'.flip # cmp.flip

\* the URLs the call was given with an empty snapshot sequence
EmptyUrls(input) == {u \in DOMAIN input : input[u] = << >>}

\* C11 as stated: get_comparative_analysis returns no reliability_score with a
\* zero denominator, and whenever a URL of the input has no status
\* observation (an empty snapshot sequence) the call raises an error
C11_EmptyInputRaises ==
    [][CompareStep =>
        /\ cmp'.outcome = "return" =>
              \A u \in DOMAIN cmp'.input : StatusTotal(metrics_cache'[u][2]) > 0
        /\ EmptyUrls(cmp'.input) # {} => cmp'.outcome # "return"]_vars

\* C11 amended: no returned reliability_score has a zero denominator, and
\* whenever a URL of the input has an empty snapshot sequence and no valid
\* cache entry at the call, the call raises an error and returns no score; a
\* URL with an empty sequence and a valid entry is scored from that entry
C11_EmptyUncachedInputRaises ==
    [][CompareStep =>
        /\ (\E u \in EmptyUrls(cmp'.input) : ~CacheValid(metrics_cache, u, wall))
              => /\ cmp'.outcome \in {"ValueError", "ZeroDivisionError"}
                 /\ cmp'.scores = NoScores
        /\ cmp'.outcome = "return" =>
              \A u \in DOMAIN cmp'.input : StatusTotal(metrics_cache'[u][2]) > 0
        /\ cmp'.outcome = "return" =>
              \A u \in EmptyUrls(cmp'.input) :
                  /\ CacheValid(metrics_cache, u, wall)
                  /\ cmp'.scores[u].reliability_score =
                        Rat(StatusOk(metrics_cache[u][2]), StatusTotal(metrics_cache[u][2]))]_vars

\* a call over two URLs, one with an empty sequence and no entry, raised
C11_Witness ==
    /\ cmp.outcome = "ValueError"
    /\ Cardinality(DOMAIN cmp.input) = 2
    /\ \E u \in EmptyUrls(cmp.input) : u \notin DOMAIN metrics_cache
    /\ \E u \in DOMAIN cmp.input : cmp.input[u] # << >>

\* a non-empty sequence of status-200 snapshots only
OnlyOk(snapshots) ==
    /\ snapshots # << >>
    /\ \A i \in 1..Len(snapshots) : snapshots[i].status_code = 200

\* C12 as stated: after any earlier calls on the object, every URL passed
\* with only status-200 snapshots gets reliability_score 1.0
C12_OnlyOkIsReliable ==
    [][(CompareStep /\ cmp'.outcome = "return") =>
        \A u \in DOMAIN cmp'.input :
            OnlyOk(cmp'.input[u]) => cmp'.scores[u].reliability_score = One]_vars

\* C12 amended: every URL passed with only status-200 snapshots and without a
\* valid cache entry at the call gets reliability_score 1.0; a URL with a
\* valid entry gets the share of status 200 in the entry's metrics, whatever
\* sequence is passed
C12_OnlyOkUncachedIsReliable ==
    [][(CompareStep /\ cmp'.outcome = "return") =>
        \A u \in DOMAIN cmp'.input :
            IF CacheValid(metrics_cache, u, wall)
            THEN cmp'.scores[u].reliability_score =
                    Rat(StatusOk(metrics_cache[u][2]), StatusTotal(metrics_cache[u][2]))
            ELSE OnlyOk(cmp'.input[u]) => cmp'.scores[u].reliability_score = One]_vars

\* a call returned 1.0 for a URL with only status 200 and less for its sibling
C12_Witness ==
    /\ cmp.outcome = "return"
    /\ \E u, v \in DOMAIN cmp.input :
          /\ OnlyOk(cmp.input[u])
          /\ cmp.scores[u].reliability_score = One
          /\ ~OnlyOk(cmp.input[v])
          /\ cmp.scores[v].reliability_score # One

\* C13 as stated: analyze_url returns content_stability 1.0 for every
\* one-element sequence and for every two-element sequence whose texts have
\* the same length n, for every n >= 0
C13_StabilityOne ==
    (/\ analyzeRet # Pending
     /\ \/ Len(analyzeArg) = 1
        \/ Len(analyzeArg) = 2 /\ analyzeArg[1].text_len = analyzeArg[2].text_len)
        => /\ analyzeRet.error = "none"
           /\ analyzeRet.metrics.content_stability = One

ChangedPairs(snapshots, threshold) ==
    {i \in 2..Len(snapshots) :
        LET sim == Ratio(snapshots[i - 1].text_content, snapshots[i].text_content)
            gap == RatAbs(RatSub(One, sim))
        IN  gap[1] * threshold[2] > threshold[1] * gap[2]}

\* C15: get_changes returns, in history order, exactly one event (timestamp of
\* the later snapshot, similarity) for each consecutive pair whose similarity
\* s has |1 - s| > threshold, and no other event: nothing for an unknown URL
\* and for a history of fewer than 2 snapshots; it never modifies history
C15_ChangesAreTheChangedPairs ==
    /\ [](~changesRet.pending =>
            LET url == changesArg.url
                snapshots == IF url \in DOMAIN history THEN history[url] ELSE << >>
                pairs == ChangedPairs(snapshots, changesArg.threshold)
                events == changesRet.events
            IN  /\ Len(events) = Cardinality(pairs)
                /\ \A i \in pairs :
                      events[Cardinality({j \in pairs : j <= i})] =
                          <<snapshots[i].timestamp,
                            Ratio(snapshots[i - 1].text_content,
                                  snapshots[i].text_content)>>
                /\ (url \notin DOMAIN history \/ Len(snapshots) < 2) => events = << >>)
    /\ [][changesRet' # changesRet => history' = history]_vars

\* of three snapshots the first pair is similar enough and is skipped, the
\* second pair is reported with the timestamp of the third snapshot
C15_Witness ==
    /\ ~changesRet.pending
    /\ changesArg.url \in DOMAIN history
    /\ Len(history[changesArg.url]) = 3
    /\ Len(changesRet.events) = 1
    /\ changesRet.events[1][1] = history[changesArg.url][3].timestamp
    /\ changesRet.events[1][2] # Zero
    /\ changesRet.events[1][2] # One

\* how far a fetch task has come
Progress(task) == IF task.st = "waiting" THEN 0 ELSE IF task.st = "fetching" THEN 1 ELSE 2

\* within one gather (pc and pc' both inside the call or round) every task
\* stays, never goes back, and keeps its result once it has one
FetchedOnce(pc, pcNext, tasks, tasksNext) ==
    (pc \in {"gather", "close"} /\ pcNext \in {"gather", "close"}) =>
        \A u \in DOMAIN tasks :
            /\ u \in DOMAIN tasksNext
            /\ Progress(tasksNext[u]) >= Progress(tasks[u])
            /\ Progress(tasks[u]) = 2 => tasksNext[u] = tasks[u]

\* the step in which the monitor loop begins a round
RoundBeginStep == rounds' = rounds + 1

\* C16 as stated: a failed fetch is not retried inside the add_urls call or
\* the round in which it failed, and every URL whose fetch failed is fetched
\* by the next round
C16_FailedRetriedByNextRound ==
    [][/\ FetchedOnce(addPc, addPc', addTask, addTask')
       /\ FetchedOnce(monPc, monPc', monTask, monTask')
       /\ RoundBeginStep => \A u \in failedUrls : u \in DOMAIN monTask']_vars

\* C16 amended: a failed fetch is not retried inside the add_urls call or the
\* round in which it failed; the next round fetches every URL whose fetch
\* failed and that is tracked, and fetches no URL that is not tracked: a URL
\* whose add_urls fetch failed before it was ever registered is not retried
C16_TrackedFailedRetriedByNextRound ==
    [][/\ FetchedOnce(addPc, addPc', addTask, addTask')
       /\ FetchedOnce(monPc, monPc', monTask, monTask')
       /\ RoundBeginStep =>
             \A u \in failedUrls :
                 IF u \in DOMAIN history
                 THEN u \in DOMAIN monTask' /\ monTask'[u] = Waiting
                 ELSE u \notin DOMAIN monTask']_vars

\* the second round has begun: it fetches again the tracked URL whose fetch
\* failed, and not the URL whose add_urls fetch failed
C16_Witness ==
    /\ rounds = 2
    /\ monPc = "gather"
    /\ \E u, v \in failedUrls :
          /\ u \in DOMAIN history
          /\ monTask[u] = Waiting
          /\ v \notin DOMAIN history
          /\ v \notin DOMAIN monTask

\* C17: in every reachable state of the interleavings of add_urls calls and
\* monitor rounds, every tracked URL has a non-empty history in which no two
\* adjacent snapshots have the same hash, so that analyze_url counts exactly
\* len(history) - 1 changes for it
C17_NoAdjacentEqualHashes ==
    \A u \in DOMAIN history :
        /\ history[u] # << >>
        /\ \A i \in 1..(Len(history[u]) - 1) :
              history[u][i].hash # history[u][i + 1].hash
        /\ Changes(history[u]) = Len(history[u]) - 1

\* a history of three snapshots, two of them appended by rounds, while the
\* other URL's round result had the hash already stored
C17_Witness ==
    /\ monPc = "close"
    /\ \E u, v \in DOMAIN history :
          /\ Len(history[u]) = 3
          /\ Changes(history[u]) = 2
          /\ v \in DOMAIN monTask
          /\ monTask[v].st = "ok"
          /\ Len(history[v]) = 1
          /\ monTask[v].snap.hash = history[v][1].hash

\* C18: the rounds of the loop are sequential: a round begins only from the
\* start of the loop or from a completed sleep, with no fetch of an earlier
\* round left; fetches start only when a round begins; the results are
\* processed only when the whole batch is gathered; the sleep follows the
\* processing, and a round that finds no URL sleeps too
C18_RoundsSequential ==
    [][/\ RoundBeginStep =>
             /\ monPc \in {"start", "sleep"}
             /\ monTask = NoTasks
             /\ IF DOMAIN history = {}
                THEN monPc' = "sleep" /\ monTask' = NoTasks
                ELSE /\ monPc' = "gather"
                     /\ DOMAIN monTask' = DOMAIN history
                     /\ \A u \in DOMAIN monTask' : monTask'[u] = Waiting
       /\ (monPc' = "gather" /\ monPc # "gather") => RoundBeginStep
       /\ (monPc' = "close" /\ monPc # "close") => monPc = "gather" /\ AllDone(monTask)
       /\ (monPc' = "sleep" /\ monPc # "sleep") =>
             \/ monPc = "close"
             \/ RoundBeginStep /\ DOMAIN history = {}
       /\ (monPc = "gather" /\ monPc' = "gather") => DOMAIN monTask' = DOMAIN monTask]_vars

\* the second round has fetches in flight, the loop having slept after the
\* first round's appends
C18_Witness ==
    /\ rounds = 2
    /\ monPc = "gather"
    /\ Holding(monTask) # {}
    /\ \E u \in DOMAIN history : Len(history[u]) = 2

\* C19: with every transport call returning or failing and a fair scheduler,
\* an add_urls call over more URLs than there are permits terminates: every
\* fetch waiting for a permit eventually obtains one and completes, and the
\* call returns
C19_AddUrlsTerminates ==
    /\ \A u \in URLs :
          (u \in DOMAIN addTask /\ addTask[u].st = "waiting")
              ~> (u \in DOMAIN addTask /\ addTask[u].st \in {"ok", "fail"})
    /\ (addPc = "gather" /\ Cardinality(DOMAIN addTask) > SmallLimit) ~> (addPc = "idle")

\* a call over more URLs than permits has gathered all its fetches, the one
\* that had to queue included
C19_Witness ==
    /\ addPc = "close"
    /\ Cardinality(DOMAIN addTask) > SmallLimit
    /\ AllDone(addTask)
    /\ permits = SmallLimit

\* C20: permits are never leaked: a fetch that completes, fails or is
\* cancelled gives back the permit it acquired, so in every state the permits
\* available plus the fetches holding one equal concurrency_limit, and with
\* no fetch in flight all permits are available
C20_PermitsConserved ==
    /\ permits >= 0
    /\ permits + InFlight = ConcurrencyLimit
    /\ InFlight = 0 => permits = ConcurrencyLimit

\* the loop was cancelled and an add_urls fetch still holds its permit, after
\* a fetch that failed: every other permit is available
C20_Witness ==
    /\ monPc = "cancelled"
    /\ rounds >= 1
    /\ failedUrls # {}
    /\ Cardinality(Holding(addTask)) = 1
    /\ permits = ConcurrencyLimit - 1

\* C21: a get_url_metrics call with an empty snapshot sequence, made while
\* the URL has no entry younger than cache_duration, raises analyze_url's
\* ValueError to the caller and leaves the cache as it was: a URL without an
\* entry gets none, and an expired entry stays with its instant and metrics
C21_EmptyInputLeavesCache ==
    [][(CallStep /\ ~EntryFresh /\ call'.snapshots = << >>) =>
        /\ metrics_cache' = metrics_cache
        /\ DOMAIN metrics_cache' = DOMAIN metrics_cache
        /\ call'.analyzed
        /\ call'.outcome = "ValueError"]_vars

\* a call with an empty sequence found an expired entry, raised, and the
\* entry is still there, as old as it was
C21_Witness ==
    /\ call.snapshots = << >>
    /\ call.outcome = "ValueError"
    /\ call.expired
    /\ call.url \in DOMAIN metrics_cache
    /\ call.at - metrics_cache[call.url][1] >= CacheDuration
    /\ Cardinality(DOMAIN metrics_cache) = 1

=============================================================================
